---- MODULE Spec2Model ----
(***************************************************************************)
(* DocumentStore (src/unnamed/part_000): the document state engine of the  *)
(* block editor.  The model keeps the fields of this.state, the autosave   *)
(* timer and the wall clock, and has one action per public method.  Every  *)
(* method is a pure operator over a "world" record                         *)
(*     [state, timer, out, timers, shifted, ret, ...]                      *)
(* holding this.state, this.autoSaveTimeout, the kinds of the change       *)
(* descriptors handed to notify() during the call, the number of           *)
(* setTimeout calls, whether history.shift() ran, the returned value, and  *)
(* further the subscribers, the state each notification handed out, the    *)
(* callbacks invoked, the host's pending timeouts, localStorage, the       *)
(* console.error count and whether an exception is propagating.            *)
(* A method that calls another one (deserialize -> addBlock ->             *)
(* saveToHistory -> notify) is the composition the code performs.          *)
(* One handler reads Date.now() as one value: the clock moves between      *)
(* calls (Tick), not inside them.                                          *)
(***************************************************************************)
EXTENDS Integers, Sequences, FiniteSets, TLC

VARIABLES
    state,            \* this.state
    autoSaveTimeout,  \* this.autoSaveTimeout: NoTimer, or <<t>> for a timer due at t
    clock,            \* Date.now()
    usedIds,          \* every block identity the engine has ever stored
    subscribers,      \* this.subscribers, in insertion order
    timerQueue,       \* the host's pending timeouts: the times they are due at
    storage,          \* localStorage['editor-autosave']
    call,             \* the most recent call on the document: [op, ret, out, timers, ...]
    prevCall,         \* the public call before that one
    pre,              \* this.state as it was when the most recent call began
    evicted,          \* whether history.shift() has dropped an entry since construction or clear()
    steps,            \* number of steps taken so far
    element           \* a block element of the editor: a BaseBlock or an EditableBlock

vars ==
    <<state, autoSaveTimeout, clock, usedIds, subscribers, timerQueue, storage,
      call, prevCall, pre, evicted, steps, element>>

-----------------------------------------------------------------------------
(* Bounds of the model *)

\* a behaviour of the model has at most this many steps (public calls and clock ticks)
MaxSteps == 4
\* the largest position a caller passes to addBlock or moveBlock
MaxPosition == 2
\* this.state.maxHistorySize; 50 in the source, scaled down so that eviction
\* of the oldest entry happens within the model
maxHistorySize == 2
\* how many times a block element is inserted into the document
MaxConnects == 2

-----------------------------------------------------------------------------
(* Values *)

NULL == "null"
\* what the methods return: true, false, and undefined for those that return nothing
True == "true"
False == "false"
Undefined == "undefined"
\* addBlock(blockData, position = null): the default of the parameter
NoPosition == -100
NoTimer == <<>>
\* this.autoSaveDelay
autoSaveDelay == 2000
NoCall ==
    [op |-> "none", ret |-> Undefined, out |-> <<>>, timers |-> 0,
     seen |-> <<>>, delivered |-> <<>>, errors |-> 0, thrown |-> FALSE]

\* the callbacks that subscribe, and those of them that throw when invoked
Observers == {"o1", "o2"}
Throwers == {"o2"}
\* the callback that calls the engine back when a block has been added
Reactors == {"o3"}

\* localStorage.getItem on a key that was never set
NoItem == <<>>
\* JSON.stringify / JSON.parse of a serialized document; text that is not
\* JSON makes parse throw
JSONstringify(data) == [json |-> data]
IsJSON(text) == "json" \in DOMAIN text
JSONparse(text) == text.json

\* the identities callers supply and the id generator draws from
BlockIds == {"b1", "b2"}
\* the positions callers pass: negative, in range and past the end
MovePositions == -1..MaxPosition
Positions == {NoPosition} \cup MovePositions
\* the argument of addBlock: a caller may or may not supply an id
BlockDatas ==
    {[content |-> "x"]} \cup {[id |-> i, content |-> "x"] : i \in BlockIds}
\* the argument of updateBlock
Updates == {[content |-> "y"]}

\* a block record as serialize() writes it
SavedBlock(id, content) ==
    [id |-> id, type |-> "text-block", content |-> content, attributes |-> <<>>,
     createdAt |-> 1, updatedAt |-> 1]
\* the arguments of deserialize: an empty object, and a saved document with
\* one or with two blocks
Documents ==
    {<<>>,
     [documentId |-> "doc_saved", title |-> "Saved", version |-> "1.0.0",
      createdAt |-> 1, updatedAt |-> 1, metadata |-> [author |-> "me"],
      blocks |-> <<SavedBlock("b1", "s")>>],
     [documentId |-> "doc_saved", title |-> "Saved", version |-> "1.0.0",
      createdAt |-> 1, updatedAt |-> 1, metadata |-> [author |-> "me"],
      blocks |-> <<SavedBlock("b2", "s"), SavedBlock("b1", "s")>>]}

Min(a, b) == IF a < b THEN a ELSE b
Max(a, b) == IF a > b THEN a ELSE b

\* { ...base, ...over }
Spread(base, over) ==
    [k \in (DOMAIN base) \cup (DOMAIN over) |->
        IF k \in DOMAIN over THEN over[k] ELSE base[k]]

\* obj.key || fallback
OrElse(obj, key, fallback) ==
    IF key \in DOMAIN obj THEN obj[key] ELSE fallback

\* obj.key || fallback for a string: the empty string is falsy too
OrElseText(obj, key, fallback) ==
    IF key \in DOMAIN obj /\ obj[key] # "" THEN obj[key] ELSE fallback

-----------------------------------------------------------------------------
(* Array.prototype helpers, with 0-based indices as in the source *)

\* array.indexOf(x): the first index of x, or -1
IndexOf(arr, x) ==
    IF \E i \in 1..Len(arr) : arr[i] = x
        THEN (CHOOSE i \in 1..Len(arr) :
                 arr[i] = x /\ \A j \in 1..(i - 1) : arr[j] # x) - 1
        ELSE -1

\* the start index splice() actually uses
SpliceStart(arr, start) ==
    IF start < 0 THEN Max(Len(arr) + start, 0) ELSE Min(start, Len(arr))

\* array.splice(start, 1)
SpliceRemove(arr, start) ==
    LET s == SpliceStart(arr, start)
    IN  IF s >= Len(arr) THEN arr
        ELSE SubSeq(arr, 1, s) \o SubSeq(arr, s + 2, Len(arr))

\* array.splice(start, 0, x)
SpliceInsert(arr, start, x) ==
    LET s == SpliceStart(arr, start)
    IN  SubSeq(arr, 1, s) \o <<x>> \o SubSeq(arr, s + 1, Len(arr))

\* array.filter(id => id !== x)
FilterOut(arr, x) == SelectSeq(arr, LAMBDA y : y # x)

\* array.slice(0, end) for 0 <= end
SliceTo(arr, end) == SubSeq(arr, 1, Min(end, Len(arr)))

\* array.shift(): the array without its first element
Shift(arr) == SubSeq(arr, 2, Len(arr))

\* Map.prototype.set / delete on a function
MapSet(m, k, v) == [x \in (DOMAIN m) \cup {k} |-> IF x = k THEN v ELSE m[x]]
MapDelete(m, k) == [x \in (DOMAIN m) \ {k} |-> m[x]]
EmptyMap == [x \in {} |-> NULL]

-----------------------------------------------------------------------------
(* The constructor *)

\* generateDocumentId(): `doc_${Date.now()}_${random}`, without the random suffix
generateDocumentId == "doc_" \o ToString(clock)

InitialMetadata ==
    [configuration |-> NULL, subsystem |-> NULL, author |-> NULL, tags |-> <<>>]

InitialState ==
    [documentId |-> "doc_1",
     title |-> "Untitled Document",
     version |-> "1.0.0",
     createdAt |-> 1,
     updatedAt |-> 1,
     blocks |-> EmptyMap,
     blockOrder |-> <<>>,
     selectedBlocks |-> {},
     focusedBlock |-> NULL,
     history |-> <<>>,
     historyIndex |-> -1,
     metadata |-> InitialMetadata]

\* the world a public call starts from
World ==
    [state |-> state, timer |-> autoSaveTimeout, out |-> <<>>, timers |-> 0,
     shifted |-> FALSE, ret |-> Undefined,
     subs |-> subscribers, throwers |-> Throwers, reactors |-> Reactors,
     queue |-> timerQueue,
     storage |-> storage, seen |-> <<>>, delivered |-> <<>>, errors |-> 0,
     thrown |-> FALSE]

\* return value; a call that an exception left returns nothing
Return(w, value) == IF w.thrown THEN w ELSE [w EXCEPT !.ret = value]

\* throw: the rest of the call is skipped up to the enclosing catch
Throw(w) == [w EXCEPT !.thrown = TRUE]

\* catch (error) { console.error(...) }
CatchAndLog(w) ==
    IF w.thrown THEN [w EXCEPT !.thrown = FALSE, !.errors = @ + 1] ELSE w

-----------------------------------------------------------------------------
(* Notification and autosave *)

\* clearTimeout(handle): the pending timeout with that handle is dropped
clearTimeout(queue, handle) ==
    IF handle = NoTimer \/ \A i \in 1..Len(queue) : queue[i] # handle[1]
        THEN queue
        ELSE LET first == CHOOSE i \in 1..Len(queue) :
                              queue[i] = handle[1]
                                  /\ \A j \in 1..(i - 1) : queue[j] # handle[1]
             IN  SubSeq(queue, 1, first - 1) \o SubSeq(queue, first + 1, Len(queue))

\* scheduleAutoSave that sets a new timer and leaves the pending one
scheduleAutoSave_NoClear(w) ==
    [w EXCEPT !.queue = Append(w.queue, clock + autoSaveDelay),
              !.timer = <<clock + autoSaveDelay>>,
              !.timers = @ + 1]

\* scheduleAutoSave(): clear the pending timer, set a new one
scheduleAutoSave(w) ==
    [w EXCEPT !.queue = Append(clearTimeout(w.queue, w.timer), clock + autoSaveDelay),
              !.timer = <<clock + autoSaveDelay>>,
              !.timers = @ + 1]

\* subscribers.forEach(callback => { try { callback(state, changes) } catch ... }):
\* each callback is invoked with the n-th notification of the call; one
\* that throws is logged and the loop goes on
\* forEach whose callbacks never call the engine
RECURSIVE invokeEach_Passive(_, _, _)
invokeEach_Passive(w, callbacks, n) ==
    IF callbacks = <<>> THEN w
    ELSE LET callback == Head(callbacks)
             invoked == [w EXCEPT !.delivered =
                            Append(@, [observer |-> callback, n |-> n,
                                       state |-> w.state])]
             caught == IF callback \in w.throwers
                           THEN CatchAndLog(Throw(invoked))
                           ELSE invoked
         IN  invokeEach_Passive(caught, Tail(callbacks), n)

\* a callback in w.reactors is
\*     (state, changes) => { if (changes.type === 'block-added')
\*                               store.updateBlock(state.blockOrder[0], {content: 'y'}) }
\* the call runs inside the forEach, on the live state, and its result is
\* what the rest of the loop goes on with
RECURSIVE updateBlock(_, _, _)
RECURSIVE invokeEach(_, _, _)
invokeEach(w, callbacks, n) ==
    IF callbacks = <<>> THEN w
    ELSE LET callback == Head(callbacks)
             invoked == [w EXCEPT !.delivered =
                            Append(@, [observer |-> callback, n |-> n,
                                       state |-> w.state])]
             caught == IF callback \in w.throwers
                           THEN CatchAndLog(Throw(invoked))
                       ELSE IF callback \in w.reactors /\ w.out[n] = "block-added"
                           THEN CatchAndLog(
                                    updateBlock(invoked,
                                        invoked.state.blockOrder[Len(invoked.state.blockOrder)],
                                        [content |-> "y"]))
                       ELSE invoked
         IN  invokeEach(caught, Tail(callbacks), n)

\* forEach without the try/catch: the first callback that throws ends the
\* loop and the exception leaves notify
RECURSIVE invokeEach_NoCatch(_, _, _)
invokeEach_NoCatch(w, callbacks, n) ==
    IF callbacks = <<>> THEN w
    ELSE LET callback == Head(callbacks)
             invoked == [w EXCEPT !.delivered =
                            Append(@, [observer |-> callback, n |-> n,
                                       state |-> w.state])]
         IN  IF callback \in w.throwers THEN Throw(invoked)
             ELSE invokeEach_NoCatch(invoked, Tail(callbacks), n)

\* notify whose callbacks are not guarded
notify_NoCatch(w, changeType) ==
    LET stamped == [w EXCEPT !.state.updatedAt = clock]
        announced == [stamped EXCEPT !.out = Append(@, changeType),
                                     !.seen = Append(@, stamped.state)]
        told == invokeEach_NoCatch(announced, announced.subs, Len(announced.out))
    IN  IF told.thrown THEN told
        ELSE [told EXCEPT !.queue = Append(clearTimeout(told.queue, told.timer),
                                           clock + autoSaveDelay),
                          !.timer = <<clock + autoSaveDelay>>,
                          !.timers = @ + 1]

\* notify that invokes the callbacks in reverse registration order
notify_Reversed(w, changeType) ==
    LET stamped == [w EXCEPT !.state.updatedAt = clock]
        announced == [stamped EXCEPT !.out = Append(@, changeType),
                                     !.seen = Append(@, stamped.state)]
        reversed == [i \in 1..Len(announced.subs) |->
                        announced.subs[Len(announced.subs) + 1 - i]]
        told == invokeEach(announced, reversed, Len(announced.out))
    IN  scheduleAutoSave(told)

\* notify(changes): stamp updatedAt, run the subscribers, schedule the autosave
notify(w, changeType) ==
    LET stamped == [w EXCEPT !.state.updatedAt = clock]
        announced == [stamped EXCEPT !.out = Append(@, changeType),
                                     !.seen = Append(@, stamped.state)]
        told == invokeEach(announced, announced.subs, Len(announced.out))
    IN  scheduleAutoSave(told)

-----------------------------------------------------------------------------
(* History *)

\* saveToHistory that never evicts the oldest entry
saveToHistory_NoEviction(w, action, data) ==
    LET kept == SliceTo(w.state.history, w.state.historyIndex + 1)
        pushed == Append(kept, [action |-> action, data |-> data, timestamp |-> clock])
    IN  [w EXCEPT !.state.history = pushed, !.state.historyIndex = @ + 1]

\* saveToHistory that keeps the entries after the cursor
saveToHistory_NoTruncate(w, action, data) ==
    LET pushed == Append(w.state.history,
                         [action |-> action, data |-> data, timestamp |-> clock])
    IN  IF Len(pushed) > maxHistorySize
            THEN [w EXCEPT !.state.history = Shift(pushed), !.shifted = TRUE]
            ELSE [w EXCEPT !.state.history = pushed,
                           !.state.historyIndex = @ + 1]

\* saveToHistory that advances the cursor also when it evicts
saveToHistory_AlwaysAdvance(w, action, data) ==
    LET kept == SliceTo(w.state.history, w.state.historyIndex + 1)
        pushed == Append(kept, [action |-> action, data |-> data, timestamp |-> clock])
    IN  IF Len(pushed) > maxHistorySize
            THEN [w EXCEPT !.state.history = Shift(pushed), !.shifted = TRUE,
                           !.state.historyIndex = @ + 1]
            ELSE [w EXCEPT !.state.history = pushed,
                           !.state.historyIndex = @ + 1]

saveToHistory(w, action, data) ==
    LET kept == SliceTo(w.state.history, w.state.historyIndex + 1)
        pushed == Append(kept, [action |-> action, data |-> data, timestamp |-> clock])
    IN  IF Len(pushed) > maxHistorySize
            THEN [w EXCEPT !.state.history = Shift(pushed), !.shifted = TRUE]
            ELSE [w EXCEPT !.state.history = pushed,
                           !.state.historyIndex = @ + 1]

\* applyHistoryItem whose undo of a removal puts the identity first
applyHistoryItem_Prepends(w, historyItem, reverse) ==
    LET data == historyItem.data
        s == w.state
    IN  CASE historyItem.action = "add-block" ->
                IF reverse
                    THEN [w EXCEPT !.state.blocks = MapDelete(@, data.blockId),
                                   !.state.blockOrder = FilterOut(@, data.blockId)]
                    ELSE [w EXCEPT !.state.blocks = MapSet(@, data.blockId, data.block),
                                   !.state.blockOrder = Append(@, data.blockId)]
          [] historyItem.action = "remove-block" ->
                IF reverse
                    THEN [w EXCEPT !.state.blocks = MapSet(@, data.blockId, data.block),
                                   !.state.blockOrder = <<data.blockId>> \o @]
                    ELSE [w EXCEPT !.state.blocks = MapDelete(@, data.blockId),
                                   !.state.blockOrder = FilterOut(@, data.blockId)]
          [] historyItem.action = "update-block" ->
                IF reverse
                    THEN [w EXCEPT !.state.blocks = MapSet(@, data.blockId, data.oldBlock)]
                    ELSE [w EXCEPT !.state.blocks = MapSet(@, data.blockId, data.newBlock)]
          [] historyItem.action = "move-block" ->
                LET currentIndex == IndexOf(s.blockOrder, data.blockId)
                    removed == SpliceRemove(s.blockOrder, currentIndex)
                IN  [w EXCEPT !.state.blockOrder =
                        SpliceInsert(removed,
                                     IF reverse THEN data.from ELSE data.to,
                                     data.blockId)]
          [] OTHER -> w

applyHistoryItem(w, historyItem, reverse) ==
    LET data == historyItem.data
        s == w.state
    IN  CASE historyItem.action = "add-block" ->
                IF reverse
                    THEN [w EXCEPT !.state.blocks = MapDelete(@, data.blockId),
                                   !.state.blockOrder = FilterOut(@, data.blockId)]
                    ELSE [w EXCEPT !.state.blocks = MapSet(@, data.blockId, data.block),
                                   !.state.blockOrder = Append(@, data.blockId)]
          [] historyItem.action = "remove-block" ->
                IF reverse
                    THEN [w EXCEPT !.state.blocks = MapSet(@, data.blockId, data.block),
                                   !.state.blockOrder = Append(@, data.blockId)]
                    ELSE [w EXCEPT !.state.blocks = MapDelete(@, data.blockId),
                                   !.state.blockOrder = FilterOut(@, data.blockId)]
          [] historyItem.action = "update-block" ->
                IF reverse
                    THEN [w EXCEPT !.state.blocks = MapSet(@, data.blockId, data.oldBlock)]
                    ELSE [w EXCEPT !.state.blocks = MapSet(@, data.blockId, data.newBlock)]
          [] historyItem.action = "move-block" ->
                LET currentIndex == IndexOf(s.blockOrder, data.blockId)
                    removed == SpliceRemove(s.blockOrder, currentIndex)
                IN  [w EXCEPT !.state.blockOrder =
                        SpliceInsert(removed,
                                     IF reverse THEN data.from ELSE data.to,
                                     data.blockId)]
          [] OTHER -> w

\* undo that notifies before it looks at the cursor
undo_NotifiesFirst(w) ==
    LET told == notify(w, "undo")
    IN  IF told.state.historyIndex < 0 THEN Return(told, False)
        ELSE LET historyItem == told.state.history[told.state.historyIndex + 1]
                 applied == applyHistoryItem(told, historyItem, TRUE)
             IN  Return([applied EXCEPT !.state.historyIndex = @ - 1], True)

\* undo that records the replay as a new action
undo_Records(w) ==
    IF w.state.historyIndex < 0 THEN Return(w, False)
    ELSE LET historyItem == w.state.history[w.state.historyIndex + 1]
             applied == applyHistoryItem(w, historyItem, TRUE)
             moved == [applied EXCEPT !.state.historyIndex = @ - 1]
             recorded == saveToHistory(moved, historyItem.action, historyItem.data)
         IN  Return(notify(recorded, "undo"), True)

undo(w) ==
    IF w.state.historyIndex < 0 THEN Return(w, False)
    ELSE LET historyItem == w.state.history[w.state.historyIndex + 1]
             applied == applyHistoryItem(w, historyItem, TRUE)
             moved == [applied EXCEPT !.state.historyIndex = @ - 1]
         IN  Return(notify(moved, "undo"), True)

redo(w) ==
    IF w.state.historyIndex >= Len(w.state.history) - 1 THEN Return(w, False)
    ELSE LET moved == [w EXCEPT !.state.historyIndex = @ + 1]
             historyItem == moved.state.history[moved.state.historyIndex + 1]
             applied == applyHistoryItem(moved, historyItem, FALSE)
         IN  Return(notify(applied, "redo"), True)

-----------------------------------------------------------------------------
(* Block management *)

\* addBlock that hands every given position to splice
addBlock_Unguarded(w, blockData, position, generated) ==
    LET blockId == OrElseText(blockData, "id", generated)
        block == Spread([id |-> blockId,
                         type |-> OrElseText(blockData, "type", "text-block"),
                         content |-> OrElseText(blockData, "content", ""),
                         attributes |-> OrElse(blockData, "attributes", <<>>),
                         createdAt |-> clock,
                         updatedAt |-> clock],
                        blockData)
        stored == [w EXCEPT !.state.blocks = MapSet(@, blockId, block)]
        placed ==
            IF position # NoPosition
                THEN [stored EXCEPT !.state.blockOrder = SpliceInsert(@, position, blockId)]
                ELSE [stored EXCEPT !.state.blockOrder = Append(@, blockId)]
        recorded == saveToHistory(placed, "add-block", [blockId |-> blockId, block |-> block])
    IN  Return(notify(recorded, "block-added"), blockId)

\* addBlock(blockData, position); generated is the identity the generator
\* would produce on this call
addBlock(w, blockData, position, generated) ==
    IF "null" \in DOMAIN blockData THEN Throw(w) ELSE
    LET blockId == OrElseText(blockData, "id", generated)
        block == Spread([id |-> blockId,
                         type |-> OrElseText(blockData, "type", "text-block"),
                         content |-> OrElseText(blockData, "content", ""),
                         attributes |-> OrElse(blockData, "attributes", <<>>),
                         createdAt |-> clock,
                         updatedAt |-> clock],
                        blockData)
        stored == [w EXCEPT !.state.blocks = MapSet(@, blockId, block)]
        order == stored.state.blockOrder
        placed ==
            IF position # NoPosition /\ position >= 0 /\ position <= Len(order)
                THEN [stored EXCEPT !.state.blockOrder = SpliceInsert(@, position, blockId)]
                ELSE [stored EXCEPT !.state.blockOrder = Append(@, blockId)]
        recorded == saveToHistory(placed, "add-block", [blockId |-> blockId, block |-> block])
    IN  Return(notify(recorded, "block-added"), blockId)

\* removeBlock that leaves the selection and the focus alone
removeBlock_KeepsSelection(w, blockId) ==
    IF blockId \notin DOMAIN w.state.blocks THEN Return(w, False)
    ELSE LET block == w.state.blocks[blockId]
             removed ==
                 [w EXCEPT !.state.blocks = MapDelete(@, blockId),
                           !.state.blockOrder = FilterOut(@, blockId)]
             recorded == saveToHistory(removed, "remove-block",
                                       [blockId |-> blockId, block |-> block])
         IN  Return(notify(recorded, "block-removed"), True)

removeBlock(w, blockId) ==
    IF blockId \notin DOMAIN w.state.blocks THEN Return(w, False)
    ELSE LET block == w.state.blocks[blockId]
             removed ==
                 [w EXCEPT !.state.blocks = MapDelete(@, blockId),
                           !.state.blockOrder = FilterOut(@, blockId),
                           !.state.selectedBlocks = @ \ {blockId},
                           !.state.focusedBlock = IF @ = blockId THEN NULL ELSE @]
             recorded == saveToHistory(removed, "remove-block",
                                       [blockId |-> blockId, block |-> block])
         IN  Return(notify(recorded, "block-removed"), True)

updateBlock(w, blockId, updates) ==
    IF blockId \notin DOMAIN w.state.blocks THEN Return(w, False)
    ELSE LET block == w.state.blocks[blockId]
             oldBlock == block
             updatedBlock == [Spread(block, updates) EXCEPT !.updatedAt = clock]
             stored == [w EXCEPT !.state.blocks = MapSet(@, blockId, updatedBlock)]
             recorded == saveToHistory(stored, "update-block",
                                       [blockId |-> blockId,
                                        oldBlock |-> oldBlock,
                                        newBlock |-> updatedBlock])
         IN  Return(notify(recorded, "block-updated"), True)

\* moveBlock without its early return for an identity that is not in blockOrder
moveBlock_NoGuard(w, blockId, newPosition) ==
    LET currentIndex == IndexOf(w.state.blockOrder, blockId)
        removed == SpliceRemove(w.state.blockOrder, currentIndex)
        moved == [w EXCEPT !.state.blockOrder =
                     SpliceInsert(removed, newPosition, blockId)]
        recorded == saveToHistory(moved, "move-block",
                                  [blockId |-> blockId,
                                   from |-> currentIndex,
                                   to |-> newPosition])
    IN  Return(notify(recorded, "block-moved"), True)

moveBlock(w, blockId, newPosition) ==
    LET currentIndex == IndexOf(w.state.blockOrder, blockId)
    IN  IF currentIndex = -1 THEN Return(w, False)
        ELSE LET removed == SpliceRemove(w.state.blockOrder, currentIndex)
                 moved == [w EXCEPT !.state.blockOrder =
                              SpliceInsert(removed, newPosition, blockId)]
                 recorded == saveToHistory(moved, "move-block",
                                           [blockId |-> blockId,
                                            from |-> currentIndex,
                                            to |-> newPosition])
             IN  Return(notify(recorded, "block-moved"), True)

\* getBlocks(): the records in document order, skipping ids without a record
getBlocks(s) ==
    LET present == SelectSeq(s.blockOrder, LAMBDA id : id \in DOMAIN s.blocks)
    IN  [i \in 1..Len(present) |-> s.blocks[present[i]]]

-----------------------------------------------------------------------------
(* Serialization *)

\* serialize that also writes the selection out
serialize_WithSelection(s) ==
    [documentId |-> s.documentId,
     title |-> s.title,
     updatedAt |-> s.updatedAt,
     selectedBlocks |-> s.selectedBlocks,
     blocks |-> getBlocks(s)]

serialize(s) ==
    [documentId |-> s.documentId,
     title |-> s.title,
     version |-> s.version,
     createdAt |-> s.createdAt,
     updatedAt |-> s.updatedAt,
     metadata |-> s.metadata,
     blocks |-> LET bs == getBlocks(s)
                IN  [i \in 1..Len(bs) |->
                        [id |-> bs[i].id,
                         type |-> bs[i].type,
                         content |-> bs[i].content,
                         attributes |-> bs[i].attributes,
                         createdAt |-> bs[i].createdAt,
                         updatedAt |-> bs[i].updatedAt]]]

\* deserialize's loop: data.blocks.forEach(blockData => this.addBlock(blockData))
\* a call of serialize(): the data is returned, nothing else happens
serializeCall(w) == Return(w, serialize(w.state))

RECURSIVE addEach(_, _)
addEach(w, blockDatas) ==
    IF w.thrown \/ blockDatas = <<>> THEN w
    ELSE addEach(addBlock(w, Head(blockDatas), NoPosition, NULL), Tail(blockDatas))

\* deserialize that starts from an empty history, selection and focus
deserialize_Resets(w, data) ==
    LET header ==
            [w EXCEPT !.state.documentId = OrElseText(data, "documentId", generateDocumentId),
                      !.state.title = OrElseText(data, "title", "Untitled Document"),
                      !.state.version = OrElseText(data, "version", "1.0.0"),
                      !.state.createdAt = OrElse(data, "createdAt", clock),
                      !.state.updatedAt = OrElse(data, "updatedAt", clock),
                      !.state.metadata = OrElse(data, "metadata", <<>>)]
        cleared == [header EXCEPT !.state.blocks = EmptyMap,
                                  !.state.blockOrder = <<>>,
                                  !.state.selectedBlocks = {},
                                  !.state.focusedBlock = NULL,
                                  !.state.history = <<>>,
                                  !.state.historyIndex = -1]
        loaded == IF "blocks" \in DOMAIN data
                      THEN addEach(cleared, data.blocks)
                      ELSE cleared
    IN  Return(notify(loaded, "document-loaded"), Undefined)

deserialize(w, data) ==
    IF "null" \in DOMAIN data THEN Throw(w) ELSE
    LET header ==
            [w EXCEPT !.state.documentId = OrElseText(data, "documentId", generateDocumentId),
                      !.state.title = OrElseText(data, "title", "Untitled Document"),
                      !.state.version = OrElseText(data, "version", "1.0.0"),
                      !.state.createdAt = OrElse(data, "createdAt", clock),
                      !.state.updatedAt = OrElse(data, "updatedAt", clock),
                      !.state.metadata = OrElse(data, "metadata", <<>>)]
        cleared == [header EXCEPT !.state.blocks = EmptyMap,
                                  !.state.blockOrder = <<>>]
        loaded == IF "blocks" \in DOMAIN data
                      THEN addEach(cleared, data.blocks)
                      ELSE cleared
    IN  IF loaded.thrown THEN loaded
        ELSE Return(notify(loaded, "document-loaded"), Undefined)

-----------------------------------------------------------------------------
(* Selection and focus *)

\* selectBlock that replaces the selection whatever multiSelect says
selectBlock_AlwaysReplaces(w, blockId, multiSelect) ==
    Return(notify([w EXCEPT !.state.selectedBlocks = {blockId}], "selection-changed"),
           Undefined)

selectBlock(w, blockId, multiSelect) ==
    LET cleared == IF multiSelect THEN w ELSE [w EXCEPT !.state.selectedBlocks = {}]
        added == [cleared EXCEPT !.state.selectedBlocks = @ \cup {blockId}]
    IN  Return(notify(added, "selection-changed"), Undefined)

focusBlock(w, blockId) ==
    Return(notify([w EXCEPT !.state.focusedBlock = blockId], "focus-changed"), Undefined)

-----------------------------------------------------------------------------
(* Autosave *)

\* autoSave(); quotaExceeded: localStorage.setItem throws
autoSave(w, quotaExceeded) ==
    LET data == serialize(w.state)
        saved == IF quotaExceeded THEN Throw(w)
                 ELSE [w EXCEPT !.storage = JSONstringify(data)]
    IN  Return(CatchAndLog(saved), Undefined)

\* loadAutoSave()
loadAutoSave(w) ==
    LET saved == w.storage
        loaded == IF ~IsJSON(saved) THEN Throw(w)
                  ELSE deserialize(w, JSONparse(saved))
    IN  IF saved = NoItem THEN Return(w, False)
        ELSE IF loaded.thrown THEN Return(CatchAndLog(loaded), False)
        ELSE Return(loaded, True)

-----------------------------------------------------------------------------
(* Metadata *)

updateMetadata(w, metadata) ==
    Return(notify([w EXCEPT !.state.metadata = Spread(@, metadata)], "metadata-updated"),
           Undefined)

setTitle(w, title) ==
    Return(notify([w EXCEPT !.state.title = title], "title-updated"), Undefined)

-----------------------------------------------------------------------------
(* Utilities *)

clear(w) ==
    Return(notify([w EXCEPT !.state.blocks = EmptyMap,
                            !.state.blockOrder = <<>>,
                            !.state.selectedBlocks = {},
                            !.state.focusedBlock = NULL,
                            !.state.history = <<>>,
                            !.state.historyIndex = -1],
                  "document-cleared"),
           Undefined)

-----------------------------------------------------------------------------
(* Block elements *)

\* the attributes the elements observe and the model follows
ObservedAttributes == {"selected", "editable", "collapsed", "placeholder"}
\* the shadow tree has no .editable-content element
NoContent == -1
\* event.key of the key presses: the keys handleKeyDown names, and another one
Keys == {"Delete", "Backspace", "Enter", "Escape", "a"}

\* new BaseBlock(): the fields the constructor sets. listeners counts the
\* click/keydown/focus/blur listeners on the host, content the listeners of
\* each kind on the .editable-content element of the shadow tree; dispatched
\* holds the events dispatched while the most recent event or call, named
\* by event and key, was handled
BaseBlock ==
    [tag |-> "base-block",
     isConnected |-> FALSE,
     attributes |-> [name \in ObservedAttributes |-> NULL],
     selected |-> FALSE,
     editable |-> FALSE,
     collapsed |-> FALSE,
     placeholder |-> "",
     isComposing |-> FALSE,
     listeners |-> 0,
     content |-> NoContent,
     event |-> "none",
     key |-> "none",
     dispatched |-> <<>>]

\* new EditableBlock()
EditableBlock == [BaseBlock EXCEPT !.tag = "editable-block"]

dispatchEvent(b, type) == [b EXCEPT !.dispatched = Append(@, type)]

\* setupContentElement(): one more listener of each kind on the element
\* querySelector finds, if it finds one
setupContentElement(b) ==
    IF b.content # NoContent THEN [b EXCEPT !.content = @ + 1] ELSE b

\* render(): BaseBlock writes a container without .editable-content;
\* EditableBlock writes a new .editable-content and sets it up
render(b) ==
    IF b.tag = "editable-block"
        THEN setupContentElement([b EXCEPT !.content = 0])
        ELSE [b EXCEPT !.content = NoContent]

\* connectedCallback(): EditableBlock calls BaseBlock's, then
\* setupContentElement() once more
connectedCallback(b) ==
    LET base == render([b EXCEPT !.listeners = @ + 1])
    IN  IF b.tag = "editable-block" THEN setupContentElement(base) ELSE base

\* disconnectedCallback(): removeEventListener is given the unbound methods,
\* which were never registered, so every listener stays
disconnectedCallback(b) == b

handleSelectionChange(b) ==
    IF b.selected THEN dispatchEvent(b, "editor-block-selected") ELSE b

\* handleEditableChange(): render; EditableBlock also sets contentEditable and
\* schedules a focus() of the content element, which changes none of the
\* fields above
handleEditableChange(b) == render(b)

attributeChangedCallback(b, name, oldValue, newValue) ==
    IF oldValue = newValue THEN b
    ELSE CASE name = "selected" ->
                  handleSelectionChange([b EXCEPT !.selected = newValue # NULL])
           [] name = "editable" ->
                  handleEditableChange([b EXCEPT !.editable = newValue # NULL])
           [] name = "collapsed" ->
                  render([b EXCEPT !.collapsed = newValue # NULL])
           [] name = "placeholder" /\ b.tag = "editable-block" ->
                  [b EXCEPT !.placeholder = IF newValue = NULL THEN "" ELSE newValue]
           [] OTHER -> b

\* Element.setAttribute: the callback runs also when the value is the same
setAttribute(b, name, value) ==
    attributeChangedCallback([b EXCEPT !.attributes[name] = value],
                             name, b.attributes[name], value)

\* Element.removeAttribute: no callback when the attribute is absent
removeAttribute(b, name) ==
    IF b.attributes[name] = NULL THEN b
    ELSE attributeChangedCallback([b EXCEPT !.attributes[name] = NULL],
                                  name, b.attributes[name], NULL)

select(b) == setAttribute(b, "selected", "")

deselect(b) == removeAttribute(b, "selected")

setEditable(b, editable) ==
    IF editable THEN setAttribute(b, "editable", "") ELSE removeAttribute(b, "editable")

toggleCollapse(b) ==
    IF b.collapsed THEN removeAttribute(b, "collapsed")
    ELSE setAttribute(b, "collapsed", "")

\* Element.remove(): out of the document, disconnectedCallback if it was in it
remove(b) ==
    IF b.isConnected THEN disconnectedCallback([b EXCEPT !.isConnected = FALSE]) ELSE b

\* delete(): the event is dispatched, then the element leaves the document
delete(b) == remove(dispatchEvent(b, "editor-block-deleted"))

\* handleKeyDown that deletes an unselected or editing block as well
handleKeyDown_Unguarded(b, key) ==
    CASE key \in {"Delete", "Backspace"} -> delete(b)
      [] key = "Enter" ->
             IF b.selected /\ ~b.editable THEN setEditable(b, TRUE) ELSE b
      [] key = "Escape" -> IF b.editable THEN setEditable(b, FALSE) ELSE b
      [] OTHER -> b

handleKeyDown(b, key) ==
    CASE key \in {"Delete", "Backspace"} ->
             IF b.selected /\ ~b.editable THEN delete(b) ELSE b
      [] key = "Enter" ->
             IF b.selected /\ ~b.editable THEN setEditable(b, TRUE) ELSE b
      [] key = "Escape" -> IF b.editable THEN setEditable(b, FALSE) ELSE b
      [] OTHER -> b

handleClick(b) == IF ~b.selected THEN select(b) ELSE b

dispatchContentChangedEvent(b) == dispatchEvent(b, "editor-content-changed")

handleInput(b) == IF b.isComposing THEN b ELSE dispatchContentChangedEvent(b)

handleCompositionStart(b) == [b EXCEPT !.isComposing = TRUE]

handleCompositionEnd(b) ==
    dispatchContentChangedEvent([b EXCEPT !.isComposing = FALSE])

\* the handler of one kind of event, by the name of the event
Handler(b, type, key) ==
    CASE type = "keydown" -> handleKeyDown(b, key)
      [] type = "click" -> handleClick(b)
      [] type = "input" -> handleInput(b)
      [] type = "compositionstart" -> handleCompositionStart(b)
      [] type = "compositionend" -> handleCompositionEnd(b)

\* the event target calls every listener registered for the event, the ones
\* registered when the event was dispatched, one after the other
RECURSIVE InvokeListeners(_, _, _, _)
InvokeListeners(b, type, key, count) ==
    IF count <= 0 THEN b
    ELSE InvokeListeners(Handler(b, type, key), type, key, count - 1)

-----------------------------------------------------------------------------
(* The public calls as actions *)

\* the identity the generator returns: one never stored before
Generated == CHOOSE i \in BlockIds \ usedIds : TRUE

\* commit the world a call produced, and remember the call
CommitAt(op, w, now) ==
    /\ steps < MaxSteps
    /\ steps' = steps + 1
    /\ state' = w.state
    /\ autoSaveTimeout' = w.timer
    /\ timerQueue' = w.queue
    /\ storage' = w.storage
    /\ call' = [op |-> op, ret |-> w.ret, out |-> w.out, timers |-> w.timers,
                seen |-> w.seen, delivered |-> w.delivered, errors |-> w.errors,
                thrown |-> w.thrown]
    /\ prevCall' = call
    /\ pre' = state
    /\ evicted' = ((op # "clear" /\ evicted) \/ w.shifted)
    /\ usedIds' = usedIds \cup DOMAIN w.state.blocks
    /\ clock' = now
    /\ UNCHANGED <<subscribers, element>>

Commit(op, w) == CommitAt(op, w, clock)

AddBlockOf(blockData, position) ==
    /\ "id" \in DOMAIN blockData \/ BlockIds \ usedIds # {}
    /\ Commit("addBlock",
              addBlock(World, blockData, position,
                       IF "id" \in DOMAIN blockData THEN NULL ELSE Generated))

AddBlock ==
    \E blockData \in BlockDatas, position \in Positions :
        AddBlockOf(blockData, position)

RemoveBlockOf(blockId) == Commit("removeBlock", removeBlock(World, blockId))

RemoveBlock == \E blockId \in BlockIds : RemoveBlockOf(blockId)

UpdateBlockOf(blockId, updates) ==
    Commit("updateBlock", updateBlock(World, blockId, updates))

UpdateBlock ==
    \E blockId \in BlockIds, updates \in Updates : UpdateBlockOf(blockId, updates)

MoveBlockOf(blockId, newPosition) ==
    Commit("moveBlock", moveBlock(World, blockId, newPosition))

MoveBlock ==
    \E blockId \in BlockIds, newPosition \in MovePositions :
        MoveBlockOf(blockId, newPosition)

Undo == Commit("undo", undo(World))

Redo == Commit("redo", redo(World))

DeserializeOf(data) == Commit("deserialize", deserialize(World, data))

Deserialize == \E data \in Documents : DeserializeOf(data)

SelectBlockOf(blockId, multiSelect) ==
    Commit("selectBlock", selectBlock(World, blockId, multiSelect))

SelectBlock ==
    \E blockId \in BlockIds, multiSelect \in BOOLEAN : SelectBlockOf(blockId, multiSelect)

FocusBlock ==
    \E blockId \in BlockIds : Commit("focusBlock", focusBlock(World, blockId))

Clear == Commit("clear", clear(World))

\* the saved document that has two blocks
TwoBlockDocument == CHOOSE data \in Documents : Len(OrElse(data, "blocks", <<>>)) = 2

\* subscribe(callback): Set.add keeps the place of a callback already there
Subscribe ==
    \E callback \in Observers :
        /\ subscribers' = IF \E i \in 1..Len(subscribers) : subscribers[i] = callback
                              THEN subscribers
                              ELSE Append(subscribers, callback)
        /\ UNCHANGED <<state, autoSaveTimeout, clock, usedIds, timerQueue, storage,
                       call, prevCall, pre, evicted, steps, element>>

\* subscribe(callback) of the callback that calls the engine back
SubscribeReactor ==
    \E callback \in Reactors :
        /\ \A i \in 1..Len(subscribers) : subscribers[i] # callback
        /\ subscribers' = Append(subscribers, callback)
        /\ UNCHANGED <<state, autoSaveTimeout, clock, usedIds, timerQueue, storage,
                       call, prevCall, pre, evicted, steps, element>>

\* the function subscribe() returned is called: Set.delete(callback)
Unsubscribe ==
    \E callback \in Observers :
        /\ \E i \in 1..Len(subscribers) : subscribers[i] = callback
        /\ subscribers' = FilterOut(subscribers, callback)
        /\ UNCHANGED <<state, autoSaveTimeout, clock, usedIds, timerQueue, storage,
                       call, prevCall, pre, evicted, steps, element>>

UpdateMetadata ==
    Commit("updateMetadata", updateMetadata(World, [author |-> "you"]))

Titles == {"", "Notes"}

SetTitle == \E title \in Titles : Commit("setTitle", setTitle(World, title))

\* a pending timeout fires, no earlier than it is due, and runs autoSave()
FireTimer ==
    \E i \in 1..Len(timerQueue), quotaExceeded \in BOOLEAN :
        LET rest == SubSeq(timerQueue, 1, i - 1)
                        \o SubSeq(timerQueue, i + 1, Len(timerQueue))
        IN  CommitAt("autoSave",
                     autoSave([World EXCEPT !.queue = rest], quotaExceeded),
                     Max(clock, timerQueue[i]))

LoadAutoSave == Commit("loadAutoSave", loadAutoSave(World))

Serialize == Commit("serialize", serializeCall(World))

\* time passes between calls
Tick ==
    /\ steps < MaxSteps
    /\ steps' = steps + 1
    /\ clock' = clock + 1
    /\ UNCHANGED <<state, autoSaveTimeout, usedIds, subscribers, timerQueue, storage,
                   call, prevCall, pre, evicted, element>>

Constructed ==
    /\ state = InitialState
    /\ autoSaveTimeout = NoTimer
    /\ clock = 1
    /\ usedIds = {}
    /\ subscribers = <<>>
    /\ timerQueue = <<>>
    /\ call = NoCall
    /\ prevCall = NoCall
    /\ pre = InitialState
    /\ evicted = FALSE
    /\ steps = 0

Init ==
    /\ Constructed
    /\ storage = NoItem
    /\ element = BaseBlock

\* JSON null, as a document and as an element of blocks
NullValue == [null |-> TRUE]

\* what an earlier session may have left in localStorage: nothing, a saved
\* document, text that is not JSON, the text "null", and a document one of
\* whose block records is null
StoredItems ==
    {NoItem,
     JSONstringify(TwoBlockDocument),
     [text |-> "{"],
     JSONstringify(NullValue),
     JSONstringify([TwoBlockDocument EXCEPT
                       !.blocks = <<SavedBlock("b1", "s"), NullValue>>])}

InitStored ==
    /\ Constructed
    /\ storage \in StoredItems
    /\ element = BaseBlock

Next ==
    \/ AddBlock
    \/ RemoveBlock
    \/ UpdateBlock
    \/ MoveBlock
    \/ Undo
    \/ Redo
    \/ Deserialize
    \/ Clear
    \/ SelectBlock
    \/ FocusBlock
    \/ Tick

Spec == Init /\ [][Next]_vars

\* only addBlock, removeBlock and moveBlock are called
NextAddRemoveMove ==
    \/ AddBlock
    \/ RemoveBlock
    \/ MoveBlock

SpecAddRemoveMove == Init /\ [][NextAddRemoveMove]_vars

\* addBlock called without an id: the engine generates a fresh one
AddGenerated == \E position \in Positions : AddBlockOf([content |-> "x"], position)

\* the editing calls and undo/redo when every identity is engine-generated,
\* without deserialize and clear: the document before the first recorded
\* mutation is the empty one
NextGeneratedIds ==
    \/ AddGenerated
    \/ RemoveBlock
    \/ UpdateBlock
    \/ MoveBlock
    \/ Undo
    \/ Redo
    \/ Tick

SpecGeneratedIds == Init /\ [][NextGeneratedIds]_vars

\* addBlock called without an id and without a position
AddAtEnd == AddBlockOf([content |-> "x"], NoPosition)

\* moveBlock to the front
MoveToFront == \E blockId \in BlockIds : MoveBlockOf(blockId, 0)

\* deserialize of the saved document that has two blocks
DeserializeTwoBlocks == DeserializeOf(TwoBlockDocument)

\* callbacks subscribe and unsubscribe between the calls that notify them
NextObservers ==
    \/ Subscribe
    \/ Unsubscribe
    \/ AddAtEnd
    \/ RemoveBlock
    \/ UpdateBlock
    \/ MoveToFront
    \/ Undo
    \/ Redo
    \/ DeserializeTwoBlocks

SpecObservers == Init /\ [][NextObservers]_vars

\* edits, the passing of time, the autosave timer and loadAutoSave(), on
\* an engine constructed over whatever localStorage holds
NextAutoSave ==
    \/ AddAtEnd
    \/ UpdateBlock
    \/ Tick
    \/ FireTimer
    \/ LoadAutoSave

SpecAutoSave == InitStored /\ [][NextAutoSave]_vars

\* the calls that change what serialize() returns
NextDocument ==
    \/ SetTitle
    \/ UpdateMetadata
    \/ AddAtEnd
    \/ RemoveBlock
    \/ UpdateBlock
    \/ MoveToFront
    \/ Deserialize
    \/ Tick

SpecDocument == Init /\ [][NextDocument]_vars

\* serialize() called between edits, selection and focus changes and undo
NextSerialize ==
    \/ AddAtEnd
    \/ UpdateBlock
    \/ SelectBlock
    \/ FocusBlock
    \/ Undo
    \/ Redo
    \/ Serialize
    \/ Tick

SpecSerialize == Init /\ [][NextSerialize]_vars

\* callbacks, one of which calls updateBlock from inside the notification
NextReentrant ==
    \/ Subscribe
    \/ SubscribeReactor
    \/ AddAtEnd
    \/ RemoveBlock
    \/ Undo

SpecReentrant == Init /\ [][NextReentrant]_vars

-----------------------------------------------------------------------------
(* The events and calls on a block element as actions *)

storeVars ==
    <<state, autoSaveTimeout, clock, usedIds, subscribers, timerQueue, storage,
      call, prevCall, pre, evicted, steps>>

\* the element as it receives an event or a call
Target(event, key) ==
    [element EXCEPT !.event = event, !.key = key, !.dispatched = <<>>]

\* the element is inserted into the document
Connect ==
    /\ ~element.isConnected
    /\ element.listeners < MaxConnects
    /\ element' = connectedCallback([Target("connected", "none") EXCEPT
                                        !.isConnected = TRUE])
    /\ UNCHANGED storeVars

\* the host page takes the element out of the document
Disconnect ==
    /\ element.isConnected
    /\ element' = remove(Target("disconnected", "none"))
    /\ UNCHANGED storeVars

\* a click on the element
Click ==
    /\ element.isConnected
    /\ element' = InvokeListeners(Target("click", "none"), "click", "none",
                                  element.listeners)
    /\ UNCHANGED storeVars

\* a key press on the element
KeyDownOf(key) ==
    /\ element.isConnected
    /\ element' = InvokeListeners(Target("keydown", key), "keydown", key,
                                  element.listeners)
    /\ UNCHANGED storeVars

KeyDown == \E key \in Keys : KeyDownOf(key)

Deselect ==
    /\ element' = deselect(Target("deselect", "none"))
    /\ UNCHANGED storeVars

SetEditable ==
    \E editable \in BOOLEAN :
        /\ element' = setEditable(Target("setEditable", "none"), editable)
        /\ UNCHANGED storeVars

ToggleCollapse ==
    /\ element' = toggleCollapse(Target("toggleCollapse", "none"))
    /\ UNCHANGED storeVars

\* the placeholder attribute is set or removed
SetPlaceholder ==
    \E value \in {NULL, "p"} :
        /\ element' = IF value = NULL
                          THEN removeAttribute(Target("placeholder", "none"), "placeholder")
                          ELSE setAttribute(Target("placeholder", "none"), "placeholder", value)
        /\ UNCHANGED storeVars

\* an event on the .editable-content element of the connected element
ContentEvent(type) ==
    /\ element.isConnected
    /\ element.content # NoContent
    /\ element' = InvokeListeners(Target(type, "none"), type, "none", element.content)
    /\ UNCHANGED storeVars

Input == ContentEvent("input")

CompositionStart == ContentEvent("compositionstart")

CompositionEnd == ContentEvent("compositionend")

\* a BaseBlock in a page: inserted, removed, clicked, keys pressed on it
NextBaseBlock ==
    \/ Connect
    \/ Disconnect
    \/ Click
    \/ KeyDown
    \/ Deselect
    \/ SetEditable
    \/ ToggleCollapse

SpecBaseBlock == Init /\ [][NextBaseBlock]_vars

InitEditableBlock ==
    /\ Constructed
    /\ storage = NoItem
    /\ element = EditableBlock

\* an EditableBlock in a page: inserted, removed, attributes changed, text
\* typed into it with and without an input method editor
NextEditableBlock ==
    \/ Connect
    \/ Disconnect
    \/ SetEditable
    \/ ToggleCollapse
    \/ SetPlaceholder
    \/ Input
    \/ CompositionStart
    \/ CompositionEnd

SpecEditableBlock == InitEditableBlock /\ [][NextEditableBlock]_vars

-----------------------------------------------------------------------------
(* Vocabulary of the properties *)

Range(seq) == {seq[i] : i \in 1..Len(seq)}

NoDuplicates(seq) ==
    \A i, j \in 1..Len(seq) : i # j => seq[i] # seq[j]

\* the calls that record one history entry when they succeed
RecordingOps == {"addBlock", "removeBlock", "updateBlock", "moveBlock"}

Succeeded(c) == c.ret # False

\* the entries a recording keeps: history.slice(0, historyIndex + 1)
Kept(s) == SubSeq(s.history, 1, s.historyIndex + 1)

\* the call left everything as it was: this.state, the timer, no notification
Untouched ==
    /\ state' = state
    /\ autoSaveTimeout' = autoSaveTimeout
    /\ call'.ret = False
    /\ timerQueue' = timerQueue
    /\ call'.out = <<>>
    /\ call'.delivered = <<>>
    /\ call'.timers = 0

\* serialize() without the document's updatedAt
SerializedDocument(s) == [serialize(s) EXCEPT !.updatedAt = 0]

-----------------------------------------------------------------------------
(* C1: in every reachable state blockOrder has no duplicate identity and   *)
(* the identities in blockOrder are exactly the keys of blocks.            *)
C1_OrderMatchesStore ==
    /\ NoDuplicates(state.blockOrder)
    /\ Range(state.blockOrder) = DOMAIN state.blocks

(* C2: after every addBlock, removeBlock and moveBlock (any id, any        *)
(* position) the length of blockOrder equals the size of blocks.           *)
C2_LengthEqualsSize ==
    Len(state.blockOrder) = Cardinality(DOMAIN state.blocks)

(* C3: undo() called right after a successful addBlock, updateBlock or     *)
(* moveBlock makes serialize() return what it returned before the          *)
(* mutation.  The formula states the claim for every field of the          *)
(* serialized document but updatedAt, which notify() stamps on every call. *)
C3_UndoRestoresSerialize ==
    [][(/\ call.op \in {"addBlock", "updateBlock", "moveBlock"}
        /\ Succeeded(call)
        /\ Undo)
       => SerializedDocument(state') = SerializedDocument(pre)]_vars

(* C4: a successful undo() of the mutation just recorded, immediately      *)
(* followed by redo(), gives back the block store and the ordering index   *)
(* that existed just after the mutation.                                   *)
C4_RedoRestoresPostMutation ==
    [][(/\ prevCall.op \in RecordingOps
        /\ Succeeded(prevCall)
        /\ call.op = "undo"
        /\ Succeeded(call)
        /\ Redo)
       => (/\ state'.blocks = pre.blocks
           /\ state'.blockOrder = pre.blockOrder)]_vars

(* C5: removeBlock and updateBlock of an identity that is not in the block *)
(* store, and moveBlock of an identity that is not in the ordering index,  *)
(* return false and leave this.state (blocks, blockOrder, selection,       *)
(* focus, history, historyIndex, updatedAt) and the autosave timer as they *)
(* were, and notify nobody.                                                *)
C5_NotFoundLeavesStateUntouched ==
    [][\A blockId \in BlockIds :
        /\ (/\ call'.op = "removeBlock"
            /\ blockId \notin DOMAIN state.blocks
            /\ RemoveBlockOf(blockId))
              => Untouched
        /\ \A updates \in Updates :
              (/\ call'.op = "updateBlock"
               /\ blockId \notin DOMAIN state.blocks
               /\ UpdateBlockOf(blockId, updates))
                  => Untouched
        /\ \A newPosition \in MovePositions :
              (/\ call'.op = "moveBlock"
               /\ blockId \notin Range(state.blockOrder)
               /\ MoveBlockOf(blockId, newPosition))
                  => Untouched]_vars

\* a failed removeBlock, updateBlock or moveBlock on a document that has a
\* block, a selection and a pending autosave
C5_Witness ==
    /\ call.op \in {"removeBlock", "updateBlock", "moveBlock"}
    /\ call.ret = False
    /\ state.blockOrder # <<>>
    /\ state.selectedBlocks # {}
    /\ autoSaveTimeout # NoTimer

-----------------------------------------------------------------------------
(* Undo as far as it goes *)

\* undo() called until it returns false: the world reached and the number of
\* calls that succeeded
RECURSIVE undoEverything(_, _)
undoEverything(w, count) ==
    LET r == undo(w)
    IN  IF r.ret = False THEN [world |-> w, count |-> count]
        ELSE undoEverything(r, count + 1)

\* the block store and the ordering index
Document(s) == <<s.blocks, s.blockOrder>>

\* the history action a call records
ActionOf(op) ==
    CASE op = "addBlock" -> "add-block"
      [] op = "removeBlock" -> "remove-block"
      [] op = "updateBlock" -> "update-block"
      [] op = "moveBlock" -> "move-block"
      [] OTHER -> "none"

\* this step is a call of addBlock, removeBlock, updateBlock or moveBlock
\* that succeeded, and so recorded one history entry (every step but Tick is
\* a public call, which Commit writes to call)
RecordingStep ==
    /\ clock' = clock
    /\ call'.op \in RecordingOps
    /\ Succeeded(call')

\* the most recent call recorded one history entry
Recorded == call.op \in RecordingOps /\ Succeeded(call)

C7_RecordingDiscardsRedoBranch ==
    [][(/\ RecordingStep
        /\ state.historyIndex < Len(state.history) - 1)
       => (/\ state'.history =
                 Append(Kept(state), state'.history[Len(state'.history)])
           /\ state'.historyIndex = Len(state'.history) - 1
           /\ redo(World').ret = False)]_vars

\* a mutation has just been recorded right after a successful undo()
C7_Witness ==
    /\ Recorded
    /\ prevCall.op = "undo"
    /\ Succeeded(prevCall)
    /\ pre.historyIndex < Len(pre.history) - 1
    /\ Len(state.history) <= Len(pre.history)

(* C8: a recording that makes the history longer than maxHistorySize       *)
(* evicts the oldest entry and leaves historyIndex unchanged; any other    *)
(* recording advances historyIndex by one.  Either way the cursor is then  *)
(* on the entry just appended, which is the last one.                      *)
C8_CursorOnNewEntry ==
    [][RecordingStep =>
        LET kept == Kept(state)
            after == state'.history
            entry == after[Len(after)]
        IN  /\ Len(after) >= 1
            /\ entry.action = ActionOf(call'.op)
            /\ entry.timestamp = clock
            /\ IF Len(kept) + 1 > maxHistorySize
                   THEN /\ after = Shift(Append(kept, entry))
                        /\ state'.historyIndex = state.historyIndex
                   ELSE /\ after = Append(kept, entry)
                        /\ state'.historyIndex = state.historyIndex + 1
            /\ after[state'.historyIndex + 1] = entry
            /\ state'.historyIndex = Len(after) - 1]_vars

\* the most recent recording evicted the oldest entry and left the cursor
\* where it was
C8_Witness ==
    /\ Recorded
    /\ Len(Kept(pre)) = maxHistorySize
    /\ state.historyIndex = pre.historyIndex
    /\ state.history[state.historyIndex + 1].action = ActionOf(call.op)

(* C9: undo() with historyIndex < 0, and redo() with historyIndex on the   *)
(* last entry or with an empty history, return false and change nothing:   *)
(* this.state and the autosave timer stay as they were and notify() is not *)
(* called.                                                                 *)
C9_NothingToUndoOrRedo ==
    [][/\ (Undo /\ state.historyIndex < 0) => Untouched
       /\ (Redo /\ state.historyIndex >= Len(state.history) - 1) => Untouched]_vars

\* undo() has just failed on an engine that has a history and a pending
\* autosave
C9_Witness ==
    /\ call.op = "undo"
    /\ call.ret = False
    /\ state.history # <<>>
    /\ state.historyIndex = -1
    /\ autoSaveTimeout # NoTimer

(* C10: a successful undo() leaves the history sequence as it was and      *)
(* decrements historyIndex by one; a successful redo() leaves the history  *)
(* sequence as it was and increments historyIndex by one.                  *)
C10_ReplayDoesNotRecord ==
    [][/\ (Undo /\ Succeeded(call')) =>
              /\ state'.history = state.history
              /\ state'.historyIndex = state.historyIndex - 1
       /\ (Redo /\ Succeeded(call')) =>
              /\ state'.history = state.history
              /\ state'.historyIndex = state.historyIndex + 1]_vars

\* redo() has just succeeded after a successful undo()
C10_Witness ==
    /\ call.op = "redo"
    /\ Succeeded(call)
    /\ prevCall.op = "undo"
    /\ Succeeded(prevCall)
    /\ state.history # <<>>

-----------------------------------------------------------------------------
(* Selection and focus *)

\* the identities a call took out of the store
Deleted == DOMAIN pre.blocks \ DOMAIN state.blocks

(* C11: after a successful removeBlock(id), id is not in the selection set *)
(* and, if id was the focused block, focusedBlock is null; the other       *)
(* selected identities and a focus on another block are unchanged; and the *)
(* call makes one notification, of kind block-removed, whose state already *)
(* has both changes.                                                       *)
C11_RemovePurgesSelectionAndFocus ==
    [][\A blockId \in BlockIds :
           (/\ call'.op = "removeBlock"
            /\ RemoveBlockOf(blockId)
            /\ Succeeded(call')) =>
               LET selected == state.selectedBlocks \ {blockId}
                   focused == IF state.focusedBlock = blockId
                                  THEN NULL ELSE state.focusedBlock
               IN  /\ state'.selectedBlocks = selected
                   /\ state'.focusedBlock = focused
                   /\ call'.out = <<"block-removed">>
                   /\ Len(call'.seen) = 1
                   /\ call'.seen[1].selectedBlocks = selected
                   /\ call'.seen[1].focusedBlock = focused
                   /\ blockId \notin DOMAIN call'.seen[1].blocks]_vars

\* removeBlock() has just removed the block that was selected and focused
C11_Witness ==
    /\ call.op = "removeBlock"
    /\ Succeeded(call)
    /\ pre.focusedBlock \in Deleted
    /\ pre.focusedBlock \in pre.selectedBlocks
    /\ state.focusedBlock = NULL

\* focusedBlock is null or the identity of a block in the store
FocusExists(s) == s.focusedBlock = NULL \/ s.focusedBlock \in DOMAIN s.blocks

(* C12: in every reachable state focusedBlock is null or the identity of a *)
(* block that exists in the store.  focusBlock() itself stores any         *)
(* identity it is given; stated here for the other calls: from a state     *)
(* whose focus exists, no call but focusBlock() reaches a state whose      *)
(* focus does not.                                                         *)
C12_FocusedBlockExists ==
    [][(FocusExists(state) /\ call'.op # "focusBlock") => FocusExists(state')]_vars

\* the selection holds only identities of blocks in the store
SelectionExists(s) == s.selectedBlocks \subseteq DOMAIN s.blocks

(* C13: whenever a call deletes a block from the store (removeBlock, undo  *)
(* of an add, redo of a remove, deserialize, clear), that identity is      *)
(* afterwards neither in the selection set nor the focused identity.       *)
C13_DeletedLeavesSelectionAndFocus ==
    [][\A blockId \in DOMAIN state.blocks \ DOMAIN state'.blocks :
           /\ blockId \notin state'.selectedBlocks
           /\ state'.focusedBlock # blockId]_vars

(* C14: selectBlock(id, multiSelect) with multiSelect false makes the      *)
(* selection exactly {id}; with multiSelect true it makes it the previous  *)
(* selection plus id; in both cases whether or not id is a stored block.   *)
C14_SelectReplacesOrExtends ==
    [][\A blockId \in BlockIds, multiSelect \in BOOLEAN :
           (call'.op = "selectBlock" /\ SelectBlockOf(blockId, multiSelect)) =>
               /\ state'.selectedBlocks =
                      IF multiSelect THEN state.selectedBlocks \cup {blockId}
                                     ELSE {blockId}
               /\ state'.blocks = state.blocks
               /\ call'.ret = Undefined]_vars

\* selectBlock() has just extended the selection to two identities, not
\* all of them stored
C14_Witness ==
    /\ call.op = "selectBlock"
    /\ Cardinality(state.selectedBlocks) = 2
    /\ Cardinality(pre.selectedBlocks) = 1
    /\ ~SelectionExists(state)

-----------------------------------------------------------------------------
(* Notification *)

\* the step is a call on the document
CallStep == steps' = steps + 1 /\ clock' = clock

\* the kind of change descriptor each operation notifies with
KindOf(op) ==
    CASE op = "addBlock" -> "block-added"
      [] op = "removeBlock" -> "block-removed"
      [] op = "updateBlock" -> "block-updated"
      [] op = "moveBlock" -> "block-moved"
      [] op = "undo" -> "undo"
      [] op = "redo" -> "redo"

\* the callbacks the n-th notification of a call invoked, in order
InvokedBy(c, n) ==
    LET RECURSIVE pick(_)
        pick(log) ==
            IF log = <<>> THEN <<>>
            ELSE IF Head(log).n = n THEN <<Head(log).observer>> \o pick(Tail(log))
                 ELSE pick(Tail(log))
    IN  pick(c.delivered)

(* C15: every successful addBlock, removeBlock, updateBlock, moveBlock,    *)
(* undo and redo makes exactly one notification: each callback subscribed  *)
(* at that time is invoked exactly once, in registration order, with the   *)
(* kind of the operation; a callback that has unsubscribed is not invoked. *)
C15_OneNotificationInRegistrationOrder ==
    [][(/\ CallStep
        /\ call'.op \in RecordingOps \cup {"undo", "redo"}
        /\ Succeeded(call')) =>
           /\ call'.out = <<KindOf(call'.op)>>
           /\ Len(call'.delivered) = Len(subscribers)
           /\ InvokedBy(call', 1) = subscribers]_vars

\* a call has notified o1 alone after the call before it had notified o2
\* and then o1: o2 subscribed first and has unsubscribed since
C15_Witness ==
    /\ call.op \in RecordingOps \cup {"undo", "redo"}
    /\ Succeeded(call)
    /\ InvokedBy(call, 1) = <<"o1">>
    /\ Succeeded(prevCall)
    /\ InvokedBy(prevCall, 1) = <<"o2", "o1">>

\* the world of the call if no callback threw
Quiet == [World EXCEPT !.throwers = {}]

\* the step leaves the state, the timer and the returned value w has
SameAs(w) ==
    /\ state' = w.state
    /\ autoSaveTimeout' = w.timer
    /\ timerQueue' = w.queue
    /\ call'.ret = w.ret

(* C16: when a subscribed callback throws during a notification, every     *)
(* other subscribed callback is still invoked, the autosave is still       *)
(* scheduled, the call returns its normal result without throwing, and the *)
(* engine state is the one the call leaves when no callback throws.        *)
C16_ThrowingObserverIsIsolated ==
    [][(/\ CallStep
        /\ call'.out # <<>>
        /\ \E i \in 1..Len(subscribers) : subscribers[i] \in Throwers) =>
           /\ \A n \in 1..Len(call'.out) : InvokedBy(call', n) = subscribers
           /\ call'.timers = Len(call'.out)
           /\ autoSaveTimeout' = <<clock + autoSaveDelay>>
           /\ ~call'.thrown
           /\ call'.errors > 0
           /\ (call'.op = "addBlock" /\ AddAtEnd) =>
                  SameAs(addBlock(Quiet, [content |-> "x"], NoPosition, Generated))
           /\ \A blockId \in BlockIds :
                  (call'.op = "removeBlock" /\ RemoveBlockOf(blockId)) =>
                      SameAs(removeBlock(Quiet, blockId))
           /\ \A blockId \in BlockIds, updates \in Updates :
                  (call'.op = "updateBlock" /\ UpdateBlockOf(blockId, updates)) =>
                      SameAs(updateBlock(Quiet, blockId, updates))
           /\ \A blockId \in BlockIds, newPosition \in MovePositions :
                  (call'.op = "moveBlock" /\ MoveBlockOf(blockId, newPosition)) =>
                      SameAs(moveBlock(Quiet, blockId, newPosition))
           /\ call'.op = "undo" => SameAs(undo(Quiet))
           /\ call'.op = "redo" => SameAs(redo(Quiet))
           /\ \A data \in Documents :
                  (call'.op = "deserialize" /\ DeserializeOf(data)) =>
                      SameAs(deserialize(Quiet, data))]_vars

\* a call has notified the throwing callback first and the other one after
\* it, and has returned
C16_Witness ==
    /\ call.out # <<>>
    /\ InvokedBy(call, 1) = <<"o2", "o1">>
    /\ call.errors > 0
    /\ ~call.thrown
    /\ Succeeded(call)

(* C17: every public mutating operation, deserialize included, has run to  *)
(* completion when a callback is invoked: the state a callback receives is *)
(* the state the call leaves.                                              *)
C17_ObserversSeeCompleteEffect ==
    \A i \in 1..Len(call.delivered) : call.seen[call.delivered[i].n] = state

-----------------------------------------------------------------------------
(* Autosave *)

(* C18: at most one persistence timer is pending at any time; every        *)
(* notification cancels the pending timer and schedules a new one          *)
(* autoSaveDelay later, so that a save fires only when no notification     *)
(* occurred during the delay before it, and what it writes is serialize()  *)
(* of the state at the moment it fires.                                    *)
C18_AutoSaveIsDebounced ==
    [][/\ Len(timerQueue') <= 1
       /\ (CallStep /\ call'.out # <<>>) =>
              /\ timerQueue' = <<clock + autoSaveDelay>>
              /\ autoSaveTimeout' = <<clock + autoSaveDelay>>
              /\ state'.updatedAt = clock
       /\ FireTimer =>
              /\ call'.op = "autoSave"
              /\ clock' >= state.updatedAt + autoSaveDelay
              /\ timerQueue' = <<>>
              /\ state' = state
              /\ storage' = IF call'.errors = 0
                                THEN JSONstringify(serialize(state))
                                ELSE storage]_vars

\* the timer has fired and saved the document, autoSaveDelay after the
\* second of two notifications that were less than autoSaveDelay apart
C18_Witness ==
    /\ call.op = "autoSave"
    /\ call.errors = 0
    /\ storage = JSONstringify(serialize(state))
    /\ Len(state.history) = 2
    /\ state.history[1].timestamp < state.history[2].timestamp
    /\ state.history[2].timestamp < state.history[1].timestamp + autoSaveDelay
    /\ clock = state.history[2].timestamp + autoSaveDelay

\* the part of the state a failed save or load must leave alone
InMemory(s) == <<s.blocks, s.blockOrder, s.metadata, s.history, s.historyIndex>>

(* C19: a failed save (autoSave) or a failed load (loadAutoSave, including *)
(* a failure raised while the loaded data is being deserialized) does not  *)
(* throw to the caller and leaves blocks, order, metadata and history as   *)
(* they were; loadAutoSave returns false in that case, and when nothing is *)
(* stored.                                                                 *)
C19_FailedSaveOrLoadLeavesState ==
    [][(/\ FireTimer \/ LoadAutoSave
        /\ call'.errors > 0 \/ (call'.op = "loadAutoSave" /\ storage = NoItem)) =>
           /\ ~call'.thrown
           /\ InMemory(state') = InMemory(state)
           /\ call'.op = "loadAutoSave" => call'.ret = False]_vars

-----------------------------------------------------------------------------
(* Serialization *)

\* an engine that has just been constructed
Fresh ==
    [World EXCEPT !.state = InitialState, !.timer = NoTimer, !.queue = <<>>,
                  !.subs = <<>>]

\* the state of a fresh engine after deserialize(serialize()) of s
RoundTrip(s) == deserialize(Fresh, serialize(s)).state

(* C20: for every reachable document state, deserialize(serialize())       *)
(* applied to a fresh engine gives the same documentId, title, version and *)
(* metadata and the same blocks (id, type, content, attributes, createdAt, *)
(* updatedAt) in the same order, with no selection and no focus.           *)
C20_RoundTripPreservesDocument ==
    LET loaded == RoundTrip(state)
    IN  /\ loaded.documentId = state.documentId
        /\ loaded.title = state.title
        /\ loaded.version = state.version
        /\ loaded.metadata = state.metadata
        /\ serialize(loaded).blocks = serialize(state).blocks
        /\ loaded.selectedBlocks = {}
        /\ loaded.focusedBlock = NULL

\* s without its transient part: selection, focus, history and cursor
Persistent(s) ==
    [s EXCEPT !.selectedBlocks = {}, !.focusedBlock = NULL,
              !.history = <<>>, !.historyIndex = -1]

(* C21: serialize() is a pure read: what it returns is what it returns on  *)
(* the state with the selection, the focus, the history and the cursor     *)
(* blanked out, so it depends on none of them; the call changes no state,  *)
(* records no history, notifies no observer and sets no timer.             *)
C21_SerializeIsPureRead ==
    [][(CallStep /\ call'.op = "serialize") =>
           /\ call'.ret = serialize(Persistent(state))
           /\ state' = state
           /\ autoSaveTimeout' = autoSaveTimeout
           /\ timerQueue' = timerQueue
           /\ call'.out = <<>>
           /\ call'.delivered = <<>>
           /\ call'.timers = 0]_vars

\* serialize() has just been called on a document with a block, a
\* selection, a focus and a history
C21_Witness ==
    /\ call.op = "serialize"
    /\ state.blockOrder # <<>>
    /\ state.selectedBlocks # {}
    /\ state.focusedBlock # NULL
    /\ state.history # <<>>

-----------------------------------------------------------------------------
(* Ordering *)

\* the history entry undo() replays in s, and the one redo() replays
EntryToUndo(s) == s.history[s.historyIndex + 1]
EntryToRedo(s) == s.history[s.historyIndex + 2]

\* a move relocates one identity, and its undo and redo alternate between
\* the ordering before it and the ordering after it
MoveRelocatesAndReplays ==
    /\ \A blockId \in BlockIds, newPosition \in MovePositions :
           (/\ call'.op = "moveBlock"
            /\ MoveBlockOf(blockId, newPosition)
            /\ Succeeded(call')) =>
               /\ FilterOut(state'.blockOrder, blockId)
                      = FilterOut(state.blockOrder, blockId)
               /\ Len(state'.blockOrder) = Len(state.blockOrder)
               /\ (newPosition >= 0 /\ newPosition < Len(state.blockOrder)) =>
                      state'.blockOrder[newPosition + 1] = blockId
               /\ state'.blocks = state.blocks
    /\ (/\ CallStep
        /\ call'.op = "undo"
        /\ Succeeded(call')
        /\ call.op \in {"moveBlock", "redo"}
        /\ Succeeded(call)
        /\ EntryToUndo(state).action = "move-block") =>
           /\ state'.blockOrder = pre.blockOrder
           /\ state'.blocks = state.blocks
    /\ (/\ CallStep
        /\ call'.op = "redo"
        /\ Succeeded(call')
        /\ call.op = "undo"
        /\ Succeeded(call)
        /\ EntryToRedo(state).action = "move-block") =>
           /\ state'.blockOrder = pre.blockOrder
           /\ state'.blocks = state.blocks

(* C22: moveBlock(id, newPosition) on a present identity takes id out of   *)
(* its index and reinserts it at newPosition, leaving the relative order   *)
(* of the other identities and the block records as they were; undo of the *)
(* move gives the ordering before it, and from then on a redo directly     *)
(* after an undo, or an undo directly after a redo, of that move gives the *)
(* ordering before the previous call: the two orderings alternate.         *)
C22_MoveRelocatesAndReplays == [][MoveRelocatesAndReplays]_vars

\* seq without its element at index i (from 1)
Without(seq, i) == SubSeq(seq, 1, i - 1) \o SubSeq(seq, i + 1, Len(seq))

(* C23: addBlock(data, position) always succeeds and returns the block's   *)
(* identity; afterwards the identity is at index position of blockOrder    *)
(* when 0 <= position <= previous length and at the last index otherwise   *)
(* (position omitted, negative or greater than the length); the identities *)
(* already present keep their order, and exactly one add-block entry for   *)
(* the identity is recorded, at the cursor.                                *)
C23_AddPlacesAtPositionOrEnd ==
    [][\A blockData \in BlockDatas, position \in Positions :
           (call'.op = "addBlock" /\ AddBlockOf(blockData, position)) =>
               LET blockId == call'.ret
                   length == Len(state.blockOrder)
                   index == IF position # NoPosition /\ position >= 0
                                  /\ position <= length
                                THEN position ELSE length
                   history == state'.history
               IN  /\ blockId \in BlockIds
                   /\ ~call'.thrown
                   /\ blockId \in DOMAIN state'.blocks
                   /\ Len(state'.blockOrder) = length + 1
                   /\ state'.blockOrder[index + 1] = blockId
                   /\ Without(state'.blockOrder, index + 1) = state.blockOrder
                   /\ history # <<>>
                   /\ history[Len(history)].action = "add-block"
                   /\ history[Len(history)].data.blockId = blockId
                   /\ state'.historyIndex = Len(history) - 1
                   /\ \/ SubSeq(history, 1, Len(history) - 1) = Kept(state)
                      \/ /\ Len(Kept(state)) = maxHistorySize
                         /\ SubSeq(history, 1, Len(history) - 1) = Tail(Kept(state))]_vars

\* addBlock() has just put a block in front of the one the call before it
\* had added
C23_Witness ==
    /\ call.op = "addBlock"
    /\ prevCall.op = "addBlock"
    /\ state.blockOrder = <<call.ret, prevCall.ret>>
    /\ call.ret # prevCall.ret
    /\ state.historyIndex = 1

(* C24: undoing a removeBlock puts exactly the block record captured at    *)
(* the removal back into the store and its identity at the end of          *)
(* blockOrder, whatever its position was; the other identities keep their  *)
(* order, and the selection and the focus are left as they are.            *)
C24_UndoOfRemoveAppends ==
    [][/\ (CallStep /\ call'.op = "removeBlock" /\ Succeeded(call')) =>
              LET entry == state'.history[Len(state'.history)]
              IN  /\ entry.action = "remove-block"
                  /\ entry.data.blockId \in DOMAIN state.blocks
                  /\ entry.data.blockId \notin DOMAIN state'.blocks
                  /\ entry.data.block = state.blocks[entry.data.blockId]
       /\ (/\ CallStep
           /\ call'.op = "undo"
           /\ Succeeded(call')
           /\ EntryToUndo(state).action = "remove-block") =>
              LET data == EntryToUndo(state).data
              IN  /\ state'.blocks = MapSet(state.blocks, data.blockId, data.block)
                  /\ state'.blockOrder = Append(state.blockOrder, data.blockId)
                  /\ state'.selectedBlocks = state.selectedBlocks
                  /\ state'.focusedBlock = state.focusedBlock]_vars

\* the first of the two blocks of the loaded document has been removed
\* and the removal undone: the block is back, now last
C24_Witness ==
    /\ steps = 3
    /\ call.op = "undo"
    /\ Succeeded(call)
    /\ prevCall.op = "removeBlock"
    /\ Succeeded(prevCall)
    /\ state.documentId = "doc_saved"
    /\ state.blockOrder = <<"b1", "b2">>
    /\ state.blocks["b2"] = SavedBlock("b2", "s")

-----------------------------------------------------------------------------
(* Timestamps *)

\* updatedAt never goes back, is the clock after every call that went
\* through, and is left alone by a call that returned false
UpdatedAtFollowsClock ==
    /\ state'.updatedAt >= state.updatedAt
    /\ (/\ CallStep
        /\ call'.op \in RecordingOps \cup {"undo", "redo", "deserialize"}
        /\ Succeeded(call')) => state'.updatedAt = clock
    /\ (CallStep /\ call'.ret = False) => state'.updatedAt = state.updatedAt

(* C25: with a clock that does not go back, the document's updatedAt is    *)
(* non-decreasing over any sequence of operations, deserialize of data     *)
(* with another updatedAt included; it is the current clock value after    *)
(* every committed mutation, undo and redo, and an operation that returns  *)
(* false does not change it.                                               *)
C25_UpdatedAtMonotonic == [][UpdatedAtFollowsClock]_vars

-----------------------------------------------------------------------------
(* Loading *)

\* the last count elements of seq
Suffix(seq, count) == SubSeq(seq, Len(seq) - count + 1, Len(seq))

\* what a history records, entry by entry: the action and the identity
Actions(history) ==
    [i \in 1..Len(history) |-> <<history[i].action, history[i].data.blockId>>]

(* C26: deserialize(data) with n block records goes through addBlock for   *)
(* each: n add-block entries are appended to the entries up to the cursor  *)
(* (the oldest ones leave when the bound is passed, none is cleared        *)
(* otherwise), the notifications are n times block-added and then          *)
(* document-loaded, and the selection and the focus are not cleared.       *)
C26_DeserializeReplaysAddBlock ==
    [][\A data \in Documents :
           (call'.op = "deserialize" /\ DeserializeOf(data)) =>
               LET records == OrElse(data, "blocks", <<>>)
                   n == Len(records)
                   added == [i \in 1..n |-> <<"add-block", records[i].id>>]
                   all == Actions(Kept(state)) \o added
               IN  /\ call'.out = [i \in 1..n |-> "block-added"] \o <<"document-loaded">>
                   /\ state'.selectedBlocks = state.selectedBlocks
                   /\ state'.focusedBlock = state.focusedBlock
                   /\ state'.blockOrder = [i \in 1..n |-> records[i].id]
                   /\ n = 0 => /\ state'.history = state.history
                               /\ state'.historyIndex = state.historyIndex
                   /\ n > 0 => /\ Actions(state'.history)
                                      = Suffix(all, Min(Len(all), maxHistorySize))
                               /\ state'.historyIndex = Len(state'.history) - 1]_vars

\* deserialize() has just loaded one block into an engine that had a
\* selection and one history entry, which is still there
C26_Witness ==
    /\ call.op = "deserialize"
    /\ call.out = <<"block-added", "document-loaded">>
    /\ state.selectedBlocks # {}
    /\ Len(pre.history) = 1
    /\ Len(state.history) = 2
    /\ state.history[1] = pre.history[1]

-----------------------------------------------------------------------------
(* Re-entrancy *)

\* the callbacks a call invoked and the notification each was invoked with
Deliveries(c) ==
    [i \in 1..Len(c.delivered) |-> <<c.delivered[i].observer, c.delivered[i].n>>]

(* C27: a mutating operation called by a callback from inside a            *)
(* notification is applied at once and runs its own complete notification  *)
(* nested in the outer one: the callbacks registered after the calling one *)
(* receive the inner change before the outer change, and the state they    *)
(* receive with the outer change already has the inner mutation.           *)
C27_NestedNotification ==
    [][(/\ CallStep
        /\ call'.op = "addBlock"
        /\ \E i \in 1..Len(subscribers) : subscribers[i] \in Reactors) =>
           LET k == CHOOSE i \in 1..Len(subscribers) : subscribers[i] \in Reactors
               count == Len(subscribers)
               updated == call'.ret
               outer == [i \in 1..count |-> <<subscribers[i], 1>>]
               inner == [i \in 1..count |-> <<subscribers[i], 2>>]
               log == call'.delivered
           IN  /\ call'.out = <<"block-added", "block-updated">>
               /\ Deliveries(call') =
                      SubSeq(outer, 1, k) \o inner \o SubSeq(outer, k + 1, count)
               /\ state'.blocks[updated].content = "y"
               /\ state'.history[Len(state'.history)].action = "update-block"
               /\ \A i \in 1..Len(log) :
                      /\ i > k => log[i].state.blocks[updated].content = "y"
                      /\ i > k => log[i].state.history = state'.history
                      /\ i <= k => log[i].state = call'.seen[1]
                      /\ i <= k => log[i].state.blocks[updated].content # "y"]_vars

\* addBlock() has just notified o1, the calling callback and o2, with the
\* update the calling callback made notified to all three in between
C27_Witness ==
    /\ call.op = "addBlock"
    /\ Deliveries(call) =
           <<<<"o1", 1>>, <<"o3", 1>>,
             <<"o1", 2>>, <<"o3", 2>>, <<"o2", 2>>,
             <<"o2", 1>>>>
    /\ call.delivered[6].state = state
    /\ call.delivered[1].state # state

-----------------------------------------------------------------------------
(* Replay when every identity is fresh *)

\* how many undo() and redo() calls are replayed from every reachable state
ReplayDepth == 3

\* the worlds that up to depth calls of undo() and redo() lead to
RECURSIVE Replays(_, _)
Replays(w, depth) ==
    IF depth = 0 THEN {w}
    ELSE {w} \cup Replays(undo(w), depth - 1) \cup Replays(redo(w), depth - 1)

\* no duplicate in the ordering, no orphan in either direction
Consistent(s) ==
    /\ NoDuplicates(s.blockOrder)
    /\ Range(s.blockOrder) = DOMAIN s.blocks

\* the entry undo() would replay and the entry redo() would replay, when it
\* is a move or an update, names a block that is present
ReplayFindsBlock(s) ==
    /\ (/\ s.historyIndex >= 0
        /\ EntryToUndo(s).action \in {"move-block", "update-block"}) =>
           /\ EntryToUndo(s).data.blockId \in DOMAIN s.blocks
           /\ IndexOf(s.blockOrder, EntryToUndo(s).data.blockId) >= 0
    /\ (/\ s.historyIndex < Len(s.history) - 1
        /\ EntryToRedo(s).action \in {"move-block", "update-block"}) =>
           /\ EntryToRedo(s).data.blockId \in DOMAIN s.blocks
           /\ IndexOf(s.blockOrder, EntryToRedo(s).data.blockId) >= 0

(* C28: when every addBlock uses an identity never used before and         *)
(* deserialize is not called, every interleaving of addBlock, removeBlock, *)
(* updateBlock, moveBlock, undo and redo, evictions included, and every    *)
(* run of undo and redo that follows it, keeps the store and the ordering  *)
(* consistent, and every undo or redo of a move or update entry finds its  *)
(* block present.                                                          *)
C28_FreshIdsKeepReplayConsistent ==
    \A w \in Replays(World, ReplayDepth) :
        /\ Consistent(w.state)
        /\ ReplayFindsBlock(w.state)

\* a move evicted the oldest entry and has just been undone
C28_Witness ==
    /\ evicted
    /\ call.op = "undo"
    /\ Succeeded(call)
    /\ Len(state.history) = maxHistorySize
    /\ EntryToRedo(state).action = "move-block"
    /\ Len(state.blockOrder) = 2

-----------------------------------------------------------------------------
(* Replay after a load *)

(* C29: when deserialize (the block ids in the data pairwise distinct) has *)
(* been called on an engine that already had history, every sequence of    *)
(* undo and redo calls that follows keeps the store and the ordering       *)
(* consistent: no identity in the ordering without a store entry, no store *)
(* entry without an ordering entry, no duplicate in the ordering.          *)
C29_ReplayAfterLoadIsConsistent ==
    (/\ call.op = "deserialize"
     /\ ~call.thrown
     /\ Consistent(pre)
     /\ Len(pre.history) > 0) =>
        \A w \in Replays(World, ReplayDepth) : Consistent(w.state)

-----------------------------------------------------------------------------
(* The history cursor *)

\* the cursor is on an entry or just before the first one, so the entry
\* undo() reads and the entry redo() reads exist
CursorInRange(s) ==
    /\ -1 <= s.historyIndex
    /\ s.historyIndex <= Len(s.history) - 1
    /\ s.historyIndex >= 0 => s.historyIndex + 1 \in DOMAIN s.history
    /\ s.historyIndex < Len(s.history) - 1 => s.historyIndex + 2 \in DOMAIN s.history

(* C30: in every reachable state -1 <= historyIndex <= history.length - 1, *)
(* so undo() finds an entry at the cursor and redo() finds one after it;   *)
(* clear() leaves the history empty and historyIndex = -1.                 *)
C30_CursorStaysInRange ==
    /\ CursorInRange(state)
    /\ call.op = "clear" => (state.history = <<>> /\ state.historyIndex = -1)

\* clear() has just emptied a full history whose cursor was on the last entry
C30_Witness ==
    /\ call.op = "clear"
    /\ Len(pre.history) = maxHistorySize
    /\ pre.historyIndex = maxHistorySize - 1
    /\ prevCall.op \in RecordingOps
    /\ state.history = <<>>
    /\ state.historyIndex = -1

-----------------------------------------------------------------------------
(* Block elements: content events and the keyboard *)

\* how many events of this type the most recent event or call dispatched
Dispatched(b, type) ==
    Cardinality({i \in 1..Len(b.dispatched) : b.dispatched[i] = type})

(* C31: on a connected EditableBlock, whatever connects, renders and       *)
(* attribute changes came before, an input event during a composition      *)
(* dispatches no editor-content-changed event, and every input event       *)
(* outside a composition and every compositionend dispatches exactly one.  *)
C31_OneContentChangedPerInput ==
    [][/\ (Input /\ element.isComposing) =>
              Dispatched(element', "editor-content-changed") = 0
       /\ (Input /\ ~element.isComposing) =>
              Dispatched(element', "editor-content-changed") = 1
       /\ CompositionEnd =>
              Dispatched(element', "editor-content-changed") = 1]_vars

\* a key press deletes only a selected block that is not being edited, Enter
\* starts editing only there, Escape ends editing
KeyboardGuards ==
    \A key \in Keys :
        KeyDownOf(key) =>
            /\ Dispatched(element', "editor-block-deleted") > 0 =>
                   /\ key \in {"Delete", "Backspace"}
                   /\ element.selected
                   /\ ~element.editable
            /\ (element'.editable /\ ~element.editable) =>
                   /\ key = "Enter"
                   /\ element.selected
            /\ (key = "Enter" /\ element.selected /\ ~element.editable) =>
                   element'.editable
            /\ key = "Escape" => ~element'.editable
            /\ (element.editable \/ ~element.selected) =>
                   /\ Dispatched(element', "editor-block-deleted") = 0
                   /\ element'.isConnected

(* C32: a key press deletes a BaseBlock (editor-block-deleted) only if the *)
(* block is selected and not in editing mode; Enter switches to editing    *)
(* mode only from the selected, non-editing state; Escape always leaves    *)
(* editing mode. So no key press deletes a block that is in editing mode   *)
(* or not selected.                                                        *)
C32_KeyboardDeletesOnlySelectedNonEditing == [][KeyboardGuards]_vars

\* Delete has just been pressed on a selected block in editing mode that was
\* inserted twice, and the block is still there
C32_Witness ==
    /\ element.event = "keydown"
    /\ element.key = "Delete"
    /\ element.selected
    /\ element.editable
    /\ element.listeners = 2
    /\ element.isConnected
    /\ element.dispatched = <<>>

====
